---- MODULE Spec2Model ----
(***************************************************************************)
(* Model of the DOM graph builder of src/Scraper/dom_graph_parser.py.      *)
(*                                                                         *)
(* Strings that the code takes apart (file names, href values) are         *)
(* sequences of tokens; the delimiters "#", "/", ":" and "_" and the       *)
(* prefix "http" are always tokens of their own, so that split() and the   *)
(* prefix tests of re.match() are computed on the tokens.  Flat joins the  *)
(* tokens into the one string the code uses as a node id or a dict key.    *)
(* Texts that the code truncates are sequences of single characters.       *)
(***************************************************************************)
EXTENDS Integers, Sequences, FiniteSets, TLC

VARIABLES
    vocab,          \* the element vocabulary the pages of this site are written in
    pc,             \* position of the scripts: load, page, walk, done, crashed, ...
    listed,         \* number of directory entries os.listdir has delivered
    file_contents,  \* the loaded pages in dict order: [name, doc]
    G,              \* the MultiDiGraph: [nodes: id -> attributes, edges: sequence]
    node_counters,  \* page -> (tag -> next index)
    page_i,         \* index in file_contents of the page being processed
    pos,            \* document index of the last element build_dom_tree was called on
    node_id,        \* <<page index, element index>> -> id given by get_node_id
    run,            \* number of the current execution of the script
    first_run,      \* node_id as it was at the end of the first execution
    docs,           \* graph_embedder: the documents selected for embedding
    index_file,     \* dom_embeddings.json: [exists, records], a record [id, embedding]
    query,          \* a retrieval call: [q_emb, top_k, order], order what argsort returns
    results,        \* the matches the retrieval call returned
    climb           \* get_heading_context: [current, visited, headings, trail, done]

\* the state of the graph builder, and the state of the scripts that read its graph
builder == <<listed, file_contents, node_counters, page_i, pos, node_id, run, first_run>>
later == <<docs, index_file, query, results, climb>>

vars == <<vocab, pc, listed, file_contents, G, node_counters, page_i, pos,
          node_id, run, first_run, docs, index_file, query, results, climb>>

(***************************************************************************)
(* Bounds of the model.                                                    *)
(***************************************************************************)
MaxElems == 3       \* elements in all pages of the site together
MaxRuns == 2        \* executions of the script on the same directory
MaxDocs == 3        \* records of an index that a retrieval call is checked on

(***************************************************************************)
(* Strings.                                                                *)
(***************************************************************************)
RECURSIVE Flat(_)
Flat(s) == IF s = <<>> THEN "" ELSE Head(s) \o Flat(Tail(s))

Min(a, b) == IF a < b THEN a ELSE b

\* Positions of the token d in s.
Occ(s, d) == {i \in 1..Len(s) : s[i] = d}

SetMin(S) == CHOOSE x \in S : \A y \in S : x <= y
SetMax(S) == CHOOSE x \in S : \A y \in S : x >= y

\* s.split(d)[0]
SplitFirst(s, d) ==
    IF Occ(s, d) = {} THEN s ELSE SubSeq(s, 1, SetMin(Occ(s, d)) - 1)

\* s.split(d)[-1]
SplitLast(s, d) ==
    IF Occ(s, d) = {} THEN s ELSE SubSeq(s, SetMax(Occ(s, d)) + 1, Len(s))

\* s[:n]
Truncate(s, n) == SubSeq(s, 1, Min(n, Len(s)))

\* str.strip() on a text of single characters; " " is the whitespace character
Strip(t) ==
    LET inked == {i \in 1..Len(t) : t[i] # " "}
    IN  IF inked = {} THEN <<>> ELSE SubSeq(t, SetMin(inked), SetMax(inked))

\* filename.endswith(".html")
EndsWithHtml(name) == name # <<>> /\ name[Len(name)] = ".html"

\* re.match(r"^(http|https)", href)
MatchHttp(href) == href # <<>> /\ Head(href) = "http"

\* re.match(r"^(mailto:|tel:)", href)
MatchData(href) ==
    Len(href) >= 2 /\ href[1] \in {"mailto", "tel"} /\ href[2] = ":"

\* re.sub(r"^https?://", "", href)
StripScheme(href) ==
    IF Len(href) >= 4 /\ SubSeq(href, 1, 4) = <<"http", ":", "/", "/">>
    THEN SubSeq(href, 5, Len(href))
    ELSE IF Len(href) >= 5 /\ SubSeq(href, 1, 5) = <<"http", "s", ":", "/", "/">>
    THEN SubSeq(href, 6, Len(href))
    ELSE href

Hostname(href) == SplitFirst(StripScheme(href), "/")

(***************************************************************************)
(* Parsed documents.  A document is the sequence of its elements in        *)
(* document order; parent is the index of the parent element, 0 for the    *)
(* BeautifulSoup object itself.  text is the element's own text, which     *)
(* comes before its child elements.                                        *)
(***************************************************************************)
NoAttr == <<"<no attribute>">>
DocumentName == "[document]"

Elem(tag, href, alt, text) == [tag |-> tag, href |-> href, alt |-> alt, text |-> text]

TagName(doc, i) == IF i = 0 THEN DocumentName ELSE doc[i].tag
Parent(doc, i) == doc[i].parent

RECURSIVE Parents(_, _)
\* tag.parents: the strict ancestors of element i, the document (0) included
Parents(doc, i) ==
    IF i = 0 THEN {} ELSE {Parent(doc, i)} \cup Parents(doc, Parent(doc, i))

\* element i and its descendants
Subtree(doc, i) == {j \in 1..Len(doc) : j = i \/ i \in Parents(doc, j)} \cup
                   (IF i = 0 THEN {0} ELSE {})

\* element.children restricted to Tag instances
Children(doc, i) == {j \in 1..Len(doc) : Parent(doc, j) = i}

\* tag.find(name): the first descendant in document order with that tag, 0 if none
Find(doc, i, name) ==
    LET hits == {j \in Subtree(doc, i) \ {i} : doc[j].tag = name}
    IN  IF hits = {} THEN 0 ELSE SetMin(hits)

\* a_tag.find("img", alt=True): alt=True matches every value that is not None
FindImgAlt(doc, i) ==
    LET hits == {j \in Subtree(doc, i) \ {i} :
                    doc[j].tag = "img" /\ doc[j].alt # NoAttr}
    IN  IF hits = {} THEN 0 ELSE SetMin(hits)

RECURSIVE JoinTexts(_, _, _)
\* the texts of the elements of S in document order, stripped or not, joined
JoinTexts(doc, S, strip) ==
    IF S = {} THEN <<>>
    ELSE LET j == SetMin(S)
             t == IF j = 0 THEN <<>>
                  ELSE IF strip THEN Strip(doc[j].text) ELSE doc[j].text
         IN  t \o JoinTexts(doc, S \ {j}, strip)

\* element.get_text() and element.get_text(strip=True)
GetText(doc, i, strip) == JoinTexts(doc, Subtree(doc, i), strip)

RECURSIVE Pick(_, _, _, _)
\* the characters of s between lo and hi that clean_text keeps: those that are not
\* blank, and the first blank after a word that is not the last word
Pick(s, last, lo, hi) ==
    IF lo > hi THEN <<>>
    ELSE IF lo = hi
    THEN IF s[lo] # " " \/ (lo > 1 /\ lo < last /\ s[lo - 1] # " ")
         THEN <<s[lo]>> ELSE <<>>
    ELSE Pick(s, last, lo, (lo + hi) \div 2) \o Pick(s, last, (lo + hi) \div 2 + 1, hi)

\* " ".join(s.split()): the words of s, each but the first after one blank
clean_text(s) ==
    LET inked == {i \in 1..Len(s) : s[i] # " "}
    IN  IF inked = {} THEN <<>> ELSE Pick(s, SetMax(inked), 1, Len(s))

(***************************************************************************)
(* The directory and the vocabularies its pages are written in.            *)
(***************************************************************************)
PageA == <<"a", ".html">>
PageHttp == <<"http", ".html">>

PageGoX == <<"Go", "_", "x", ".html">>

\* os.listdir(ROOT_DIR)
Listing == <<PageA, <<"notes", ".txt">>, PageHttp>>

\* os.listdir(ROOT_DIR) of the site of a vocabulary: the site "header" has a page
\* with "_" in its name
listdir(v) == IF v = "header" THEN <<PageGoX, PageA>> ELSE Listing

T_None == <<>>
T_Go == <<"G", "o">>
T_Blank == <<" ">>
T_Long == [i \in 1..51 |-> "x"]

H_Page == PageA
H_Ext == <<"http", "s", ":", "/", "/", "x.com", "/">>
H_ExtPage == <<"http", "s", ":", "/", "/", "x.com", "/", "docs", "/", "a", ".html", "#", "top">>
H_Mail == <<"mailto", ":", "i@x.com">>
H_Tel == <<"tel", ":", "555">>
H_Empty == <<>>
H_Frag == <<"#", "top">>
H_Script == <<"javascript", ":", "void(0)">>
H_Rel == <<"docs", "/", "faq", ".html">>
H_Clash == <<"http", ".html", "_", "DATA", "_", "7">>
H_Root == <<"http", ".html", "_", "[document]", "_", "0">>
H_Self == <<"http", ".html", "_", "a", "_", "1">>

Plain(tag) == Elem(tag, NoAttr, NoAttr, T_None)
Link(href, text) == Elem("a", href, NoAttr, text)
Img(alt) == Elem("img", NoAttr, alt, T_None)

\* the elements a page of the given vocabulary is made of
ElemsOf(v) ==
    CASE v = "links" ->
            {Link(h, T_Go) : h \in {H_Page, H_Ext, H_ExtPage, H_Mail, H_Frag, H_Clash}}
      [] v = "walk" ->
            {Plain("div"), Plain("script"), Plain("html"), Elem("p", NoAttr, NoAttr, T_Go),
             Link(H_Mail, T_Go), Link(H_Ext, T_Go)}
      [] v = "skip" ->
            {Plain("div"), Plain("script"), Plain("hr"), Link(H_Mail, T_Go),
             Link(H_Ext, T_Go)}
      [] v = "header" ->
            {Elem("title", NoAttr, NoAttr, T_Go), Elem("p", NoAttr, NoAttr, T_Go),
             Link(H_Mail, T_Go), Link(H_Page, T_Go)}
      [] v = "xpath" ->
            {Plain("div"), Plain("p"), Elem("p", NoAttr, NoAttr, T_Go), Link(H_Mail, T_Go)}
      [] v = "frozen" ->
            {Link(H_Ext, T_Go), Link(H_Ext, T_None), Link(H_Self, T_Go),
             Link(H_Self, T_None)}
      [] v = "rerun" ->
            {Plain("div"), Plain("script"), Elem("p", NoAttr, NoAttr, T_Go),
             Link(H_Mail, T_Go)}
      [] v = "embed" ->
            {Link(H_Page, T_Go), Link(H_Mail, T_Go), Link(H_Root, T_Go),
             Elem("h1", NoAttr, NoAttr, T_Go), Plain("h2")}
      [] v = "none" ->
            {Link(h, T_Go) : h \in {NoAttr, H_Empty, H_Frag, H_Script, H_Rel, H_Tel}}
      [] v = "text" ->
            {Link(H_Mail, T_None), Link(H_Page, T_Blank), Link(H_Ext, T_Long),
             Img(NoAttr), Img(T_None), Img(T_Long)}
      [] v = "title" ->
            {Elem("title", NoAttr, NoAttr, T_Go), Plain("title"),
             Elem("title", NoAttr, NoAttr, T_Blank), Plain("div"),
             Elem("h1", NoAttr, NoAttr, T_Go), Link(NoAttr, T_None)}

(***************************************************************************)
(* networkx.MultiDiGraph: the attribute dicts of the nodes, the nodes in   *)
(* insertion order, and the list of edges [u, v, data].                    *)
(***************************************************************************)
NoAttrs == <<>>

EmptyGraph == [nodes |-> <<>>, order |-> <<>>, edges |-> <<>>]

HasNode(g, n) == n \in DOMAIN g.nodes

\* G.add_node(n, **attrs): a new node, or an update of the attributes of an old one
add_node(g, n, attrs) ==
    IF HasNode(g, n)
    THEN [g EXCEPT !.nodes[n] = attrs @@ @]
    ELSE [g EXCEPT !.nodes = (n :> attrs) @@ @, !.order = Append(@, n)]

\* G.add_edge(u, v, **data): the end points are created when they are missing
add_edge(g, u, v, data) ==
    LET g1 == IF HasNode(g, u) THEN g ELSE add_node(g, u, NoAttrs)
        g2 == IF HasNode(g1, v) THEN g1 ELSE add_node(g1, v, NoAttrs)
    IN  [g2 EXCEPT !.edges = Append(@, [u |-> u, v |-> v, data |-> data])]

\* len(G.nodes)
NumNodes(g) == Cardinality(DOMAIN g.nodes)

(***************************************************************************)
(* Helpers of the script.                                                  *)
(***************************************************************************)
AnchorLen == 50
SnippetLen == 150

\* the skip list without its first tag
SkippedTagsNoScript == {"style", "meta", "link", "br", "hr"}

\* the tags build_dom_tree returns for at once
SkippedTags == {"script", "style", "meta", "link", "br", "hr"}
HeadingTags == {"h1", "h2", "h3", "h4"}

\* get_node_id with the increment of the counter forgotten
get_node_id_stuck(counters, page_name, tag_name) ==
    LET key == Flat(page_name)
        c1 == IF key \in DOMAIN counters THEN counters ELSE (key :> <<>>) @@ counters
        c2 == IF tag_name \in DOMAIN c1[key] THEN c1
              ELSE [c1 EXCEPT ![key] = (tag_name :> 0) @@ @]
    IN  [id |-> page_name \o <<"_", tag_name, "_", ToString(c2[key][tag_name])>>,
         counters |-> c2]

\* get_node_id with one counter per page that all tag names share
get_node_id_shared(counters, page_name, tag_name) ==
    LET key == Flat(page_name)
        c1 == IF key \in DOMAIN counters THEN counters ELSE (key :> <<>>) @@ counters
        c2 == IF "*" \in DOMAIN c1[key] THEN c1
              ELSE [c1 EXCEPT ![key] = ("*" :> 0) @@ @]
        idx == c2[key]["*"]
    IN  [id |-> page_name \o <<"_", tag_name, "_", ToString(idx)>>,
         counters |-> [c2 EXCEPT ![key]["*"] = idx + 1]]

\* get_node_id(page_name, tag): the id and the counters after the call
get_node_id(counters, page_name, tag_name) ==
    LET key == Flat(page_name)
        c1 == IF key \in DOMAIN counters THEN counters ELSE (key :> <<>>) @@ counters
        c2 == IF tag_name \in DOMAIN c1[key] THEN c1
              ELSE [c1 EXCEPT ![key] = (tag_name :> 0) @@ @]
        idx == c2[key][tag_name]
    IN  [id |-> page_name \o <<"_", tag_name, "_", ToString(idx)>>,
         counters |-> [c2 EXCEPT ![key][tag_name] = idx + 1]]

\* extract_link_text(a_tag)
extract_link_text(doc, i) ==
    LET txt == GetText(doc, i, TRUE)
        img == FindImgAlt(doc, i)
    IN  IF txt # <<>> THEN Truncate(txt, AnchorLen)
        ELSE IF img # 0 THEN Truncate(doc[img].alt, AnchorLen)
        ELSE <<"L", "i", "n", "k">>

\* all_known_pages = set(file_contents.keys())
all_known_pages(files) == {Flat(files[k].name) : k \in 1..Len(files)}

(***************************************************************************)
(* build_dom_tree, one call of it.                                         *)
(***************************************************************************)
\* the k-th member of a set of element indices in document order
Nth(S, k) == CHOOSE x \in S : Cardinality({y \in S : y < x}) = k - 1

RECURSIVE TagEq(_, _, _)
\* Tag.__eq__ of BeautifulSoup: the same name, the same attributes and the same
\* contents, recursively
TagEq(doc, a, b) ==
    /\ doc[a].tag = doc[b].tag
    /\ doc[a].href = doc[b].href
    /\ doc[a].alt = doc[b].alt
    /\ doc[a].text = doc[b].text
    /\ Cardinality(Children(doc, a)) = Cardinality(Children(doc, b))
    /\ \A k \in 1..Cardinality(Children(doc, a)) :
          TagEq(doc, Nth(Children(doc, a), k), Nth(Children(doc, b), k))

\* parent.find_all(current.name, recursive=False)
same_tag_siblings(doc, current) ==
    {j \in Children(doc, Parent(doc, current)) : doc[j].tag = doc[current].tag}

RECURSIVE get_simple_xpath(_, _)
\* get_simple_xpath(tag): the segments [tag, index] of the path, the outermost first;
\* list.index and the operator in compare the tags by Tag.__eq__
get_simple_xpath(doc, current) ==
    IF current = 0 THEN <<>>
    ELSE IF Parent(doc, current) = 0 THEN <<>>
    ELSE LET same == same_tag_siblings(doc, current)
             found == {j \in same : TagEq(doc, j, current)}
         IN  IF found = {} THEN <<>>
             ELSE get_simple_xpath(doc, Parent(doc, current)) \o
                  <<[tag |-> doc[current].tag,
                     index |-> Cardinality({j \in same : j < SetMin(found)}) + 1]>>

\* the attributes of the node of element i
node_attrs(doc, i, page_name, depth) ==
    LET tag == TagName(doc, i)
        text_content == clean_text(GetText(doc, i, FALSE))
        base == [type |-> "DOM_Element", tag |-> tag,
                 xpath |-> get_simple_xpath(doc, i), page |-> Flat(page_name),
                 depth |-> depth, text_snippet |-> Truncate(text_content, SnippetLen)]
    IN  IF tag = "title"
        THEN [type |-> "Page_Title", title_text |-> text_content] @@ base
        ELSE IF tag \in HeadingTags
        THEN [type |-> "Section_Heading", heading_text |-> text_content] @@ base
        ELSE IF tag = "p" /\ text_content # <<>>
        THEN [type |-> "Paragraph", full_text |-> text_content] @@ base
        ELSE base

\* link_rule with the http test ahead of the known-page test
link_rule_http_first(href, known) ==
    IF MatchHttp(href) THEN "external"
    ELSE IF Flat(SplitLast(href, "/")) \in known THEN "page"
    ELSE IF MatchData(href) THEN "data"
    ELSE "none"

\* link_rule with a final else in place of the mailto/tel test
link_rule_else_data(href, known) ==
    IF Flat(SplitLast(href, "/")) \in known THEN "page"
    ELSE IF MatchHttp(href) THEN "external"
    ELSE "data"

\* the branch of the if/elif chain that an href (fragment stripped) takes
link_rule(href, known) ==
    IF Flat(SplitLast(href, "/")) \in known THEN "page"
    ELSE IF MatchHttp(href) THEN "external"
    ELSE IF MatchData(href) THEN "data"
    ELSE "none"

\* f"{page_name}_DATA_{len(G.nodes)}"
data_node_id(g, page_name) ==
    Flat(page_name \o <<"_", "DATA", "_", ToString(NumNodes(g))>>)

\* G.add_edge(node_id, target, relation="LINKS_TO_PAGE", anchor=link_txt)
page_link(g, nid, target, link_txt) ==
    add_edge(g, nid, target, [relation |-> "LINKS_TO_PAGE", anchor |-> link_txt])

\* external_link with the edge added only together with a new node
external_link_once(g, nid, href, link_txt) ==
    LET external_node_id == Flat(href)
    IN  IF HasNode(g, external_node_id) THEN g
        ELSE add_edge(
                add_node(g, external_node_id,
                    [type |-> "External_Page", url |-> Flat(href),
                     label |-> link_txt, hostname |-> Flat(Hostname(href))]),
                nid, external_node_id,
                [relation |-> "LINKS_TO_EXTERNAL_PAGE", anchor |-> link_txt])

\* the External_Page node, created when the URL is not yet in G, and the edge to it
external_link(g, nid, href, link_txt) ==
    LET external_node_id == Flat(href)
        g1 == IF HasNode(g, external_node_id) THEN g
              ELSE add_node(g, external_node_id,
                      [type |-> "External_Page", url |-> Flat(href),
                       label |-> link_txt, hostname |-> Flat(Hostname(href))])
    IN  add_edge(g1, nid, external_node_id,
                 [relation |-> "LINKS_TO_EXTERNAL_PAGE", anchor |-> link_txt])

\* the Data_Link node and the edge to it
data_link(g, nid, href, link_txt, page_name) ==
    LET data_id == data_node_id(g, page_name)
        g1 == add_node(g, data_id,
                 [type |-> "Data_Link", data_type |-> Flat(SplitFirst(href, ":")),
                  value |-> Flat(href), label |-> link_txt])
    IN  add_edge(g1, nid, data_id, [relation |-> "CONTAINS_DATA", anchor |-> link_txt])

\* the <a> part of build_dom_tree: the graph after the link of element i is handled
process_link(g, doc, i, nid, page_name, known) ==
    IF i = 0 \/ TagName(doc, i) # "a" \/ doc[i].href = NoAttr THEN g
    ELSE
    LET href == SplitFirst(doc[i].href, "#")
        link_txt == extract_link_text(doc, i)
        target == Flat(SplitLast(href, "/"))
        rule == link_rule(href, known)
    IN  CASE rule = "page" -> page_link(g, nid, target, link_txt)
          [] rule = "external" -> external_link(g, nid, href, link_txt)
          [] rule = "data" -> data_link(g, nid, href, link_txt, page_name)
          [] OTHER -> g

\* the body of build_dom_tree for an element that is not skipped
build_dom_tree(g, counters, doc, i, parent_node_id, page_name, depth, known) ==
    LET got == get_node_id(counters, page_name, TagName(doc, i))
        nid == Flat(got.id)
        g1 == add_node(g, nid, node_attrs(doc, i, page_name, depth))
        g2 == IF parent_node_id # ""
              THEN add_edge(g1, parent_node_id, nid, [relation |-> "CONTAINS"])
              ELSE g1
    IN  [G |-> process_link(g2, doc, i, nid, page_name, known),
         counters |-> got.counters,
         id |-> got.id]

(***************************************************************************)
(* The page loop.                                                          *)
(***************************************************************************)
None == <<"<None>">>
NoCall == -1

RECURSIVE TagString(_, _)
\* tag.string: the only child if it is a string, the string of an only child tag
TagString(doc, i) ==
    LET kids == Children(doc, i)
        n == (IF doc[i].text # <<>> THEN 1 ELSE 0) + Cardinality(kids)
    IN  IF n # 1 THEN None
        ELSE IF doc[i].text # <<>> THEN doc[i].text
        ELSE TagString(doc, CHOOSE j \in kids : TRUE)

\* soup.find("html") or soup.find("body") or soup
Root(doc) ==
    IF Find(doc, 0, "html") # 0 THEN Find(doc, 0, "html")
    ELSE IF Find(doc, 0, "body") # 0 THEN Find(doc, 0, "body")
    ELSE 0

\* depth of element i as build_dom_tree counts it from the root
Depth(doc, i) == Cardinality(Parents(doc, i) \cap Subtree(doc, Root(doc)))

\* the element of the next call of build_dom_tree after element i: the next one
\* in document order below the root whose parent got a node
NextCall(doc, created, i) ==
    LET calls == {j \in Subtree(doc, Root(doc)) : j > i /\ Parent(doc, j) \in created}
    IN  IF calls = {} THEN NoCall ELSE SetMin(calls)

RECURSIVE TotalElems(_)
TotalElems(files) ==
    IF files = <<>> THEN 0 ELSE Len(Head(files).doc) + TotalElems(Tail(files))

\* the elements a parser can deliver next: children of the last element or of
\* one of its ancestors
OpenParents(doc) ==
    IF doc = <<>> THEN {0} ELSE {Len(doc)} \cup Parents(doc, Len(doc))

Created(p) == {i \in 0..MaxElems + 1 : <<p, i>> \in DOMAIN node_id}

(***************************************************************************)
(* Actions.                                                                *)
(***************************************************************************)
\* for filename in os.listdir(ROOT_DIR): keep the .html files
ListFile ==
    /\ pc = "load"
    /\ listed < Len(listdir(vocab))
    /\ listed' = listed + 1
    /\ file_contents' =
          IF EndsWithHtml(listdir(vocab)[listed + 1])
          THEN Append(file_contents, [name |-> listdir(vocab)[listed + 1], doc |-> <<>>])
          ELSE file_contents
    /\ UNCHANGED <<vocab, pc, G, node_counters, page_i, pos, node_id, run, first_run, later>>

\* the content of the file read last has one more element
ParseElement ==
    /\ pc = "load"
    /\ file_contents # <<>>
    /\ TotalElems(file_contents) < MaxElems
    /\ \E e \in ElemsOf(vocab) :
       \E p \in OpenParents(file_contents[Len(file_contents)].doc) :
          file_contents' = [file_contents EXCEPT ![Len(file_contents)].doc =
                                Append(@, ("parent" :> p) @@ e)]
    /\ UNCHANGED <<vocab, pc, listed, G, node_counters, page_i, pos, node_id, run, first_run, later>>

\* G = nx.MultiDiGraph(); node_counters = {}
StartBuild ==
    /\ pc = "load"
    /\ listed = Len(listdir(vocab))
    /\ pc' = "page"
    /\ page_i' = 1
    /\ G' = EmptyGraph
    /\ node_counters' = <<>>
    /\ UNCHANGED <<vocab, listed, file_contents, pos, node_id, run, first_run, later>>

\* the head of the page loop: the Page_File node and the root of the traversal
ProcessPage ==
    /\ pc = "page"
    /\ page_i <= Len(file_contents)
    /\ LET filename == file_contents[page_i].name
           doc == file_contents[page_i].doc
           title_tag == Find(doc, 0, "title")
       IN  IF title_tag # 0 /\ TagString(doc, title_tag) = None
           THEN \* None.strip() raises AttributeError
                /\ pc' = "crashed"
                /\ UNCHANGED <<G, pos>>
           ELSE /\ G' = add_node(G, Flat(filename),
                          [type |-> "Page_File",
                           title |-> IF title_tag # 0
                                     THEN Strip(TagString(doc, title_tag))
                                     ELSE filename])
                /\ pos' = Root(doc)
                /\ pc' = "walk"
    /\ UNCHANGED <<vocab, listed, file_contents, node_counters, page_i, node_id, run, first_run, later>>

\* one call build_dom_tree(element, parent_node_id, page_name, depth)
BuildDomTree ==
    /\ pc = "walk"
    /\ LET filename == file_contents[page_i].name
           doc == file_contents[page_i].doc
           i == pos
           skipped == TagName(doc, i) \in SkippedTags
           parent_node_id == IF i = Root(doc) THEN Flat(filename)
                             ELSE Flat(node_id[<<page_i, Parent(doc, i)>>])
           built == build_dom_tree(G, node_counters, doc, i, parent_node_id, filename,
                                   Depth(doc, i), all_known_pages(file_contents))
           created == IF skipped THEN Created(page_i) ELSE Created(page_i) \cup {i}
       IN  /\ IF skipped
              THEN UNCHANGED <<G, node_counters, node_id>>
              ELSE \E b \in {built} :
                      /\ G' = b.G
                      /\ node_counters' = b.counters
                      /\ node_id' = (<<page_i, i>> :> b.id) @@ node_id
           /\ \E next \in {NextCall(doc, created, i)} :
                 /\ pos' = next
                 /\ IF next = NoCall
                    THEN pc' = "page" /\ page_i' = page_i + 1
                    ELSE UNCHANGED <<pc, page_i>>
    /\ UNCHANGED <<vocab, listed, file_contents, run, first_run, later>>

\* the graph is written to dom_graph.json
Export ==
    /\ pc = "page"
    /\ page_i > Len(file_contents)
    /\ pc' = "done"
    /\ UNCHANGED <<vocab, listed, file_contents, G, node_counters, page_i, pos, node_id,
                   run, first_run, later>>

\* Rerun with the counters of the execution before kept
RerunStale ==
    /\ pc \in {"done", "crashed"}
    /\ run < MaxRuns
    /\ run' = run + 1
    /\ first_run' = IF run = 1 THEN node_id ELSE first_run
    /\ G' = EmptyGraph
    /\ node_id' = <<>>
    /\ page_i' = 1
    /\ pc' = "page"
    /\ UNCHANGED <<vocab, listed, file_contents, pos, node_counters, later>>

\* the script is executed again on the same directory
Rerun ==
    /\ pc \in {"done", "crashed"}
    /\ run < MaxRuns
    /\ run' = run + 1
    /\ first_run' = IF run = 1 THEN node_id ELSE first_run
    /\ G' = EmptyGraph
    /\ node_counters' = <<>>
    /\ node_id' = <<>>
    /\ page_i' = 1
    /\ pc' = "page"
    /\ UNCHANGED <<vocab, listed, file_contents, pos, later>>

\* dom_embeddings.json does not exist; no retrieval call; no call of
\* get_heading_context
NoFile == [exists |-> FALSE, records |-> <<>>]
NoQuery == [q_emb |-> <<>>, top_k |-> 0, order |-> <<>>]
NoResults == [by |-> "", top_indices |-> <<>>, matches |-> <<>>, scores_dict |-> <<>>]
NoClimb == [current |-> "", visited |-> {}, headings |-> <<>>, trail |-> <<>>,
            done |-> TRUE]

\* nothing has been embedded, asked or climbed yet
AtRest ==
    /\ docs = <<>>
    /\ index_file = NoFile
    /\ query = NoQuery
    /\ results = NoResults
    /\ climb = NoClimb

InitCommon ==
    /\ pc = "load"
    /\ listed = 0
    /\ file_contents = <<>>
    /\ G = EmptyGraph
    /\ node_counters = <<>>
    /\ page_i = 0
    /\ pos = NoCall
    /\ node_id = <<>>
    /\ run = 1
    /\ first_run = <<>>
    /\ AtRest

Init == vocab = "links" /\ InitCommon
InitWalk == vocab = "walk" /\ InitCommon
InitXpath == vocab = "xpath" /\ InitCommon
InitFrozen == vocab = "frozen" /\ InitCommon
InitNone == vocab = "none" /\ InitCommon
InitText == vocab = "text" /\ InitCommon
InitTitle == vocab = "title" /\ InitCommon
InitRerun == vocab = "rerun" /\ InitCommon
InitEmbed == vocab = "embed" /\ InitCommon
InitHeader == vocab = "header" /\ InitCommon

\* one execution of the script
Next ==
    \/ ListFile
    \/ ParseElement
    \/ StartBuild
    \/ ProcessPage
    \/ BuildDomTree
    \/ Export

\* executions of the script one after the other
NextRerun ==
    \/ Next
    \/ Rerun

Spec == Init /\ [][Next]_vars
SpecWalk == InitWalk /\ [][Next]_vars
SpecXpath == InitXpath /\ [][Next]_vars
SpecFrozen == InitFrozen /\ [][Next]_vars

InitSkip == vocab = "skip" /\ InitCommon
SpecSkip == InitSkip /\ [][Next]_vars
SpecNone == InitNone /\ [][Next]_vars
SpecText == InitText /\ [][Next]_vars
SpecTitle == InitTitle /\ [][Next]_vars
SpecRerun == InitRerun /\ [][NextRerun]_vars

(***************************************************************************)
(* The graph as the other scripts read it: networkx keeps the edges by     *)
(* source node and, below it, by neighbour, each in the order of insertion.*)
(***************************************************************************)
RECURSIVE GroupedBy(_, _)
\* the edges of s with those of the same end (u or v) next to each other, the ends in
\* the order of their first edge
GroupedBy(s, end) ==
    IF s = <<>> THEN <<>>
    ELSE SelectSeq(s, LAMBDA e : e[end] = Head(s)[end]) \o
         GroupedBy(SelectSeq(s, LAMBDA e : e[end] # Head(s)[end]), end)

\* G.in_edges(n, data=True): by predecessor in the order of its first edge to n
in_edges(g, n) == GroupedBy(SelectSeq(g.edges, LAMBDA e : e.v = n), "u")

\* G.out_edges(n, data=True): by successor in the order of its first edge from n
out_edges(g, n) == GroupedBy(SelectSeq(g.edges, LAMBDA e : e.u = n), "v")

RECURSIVE EdgesFromNode(_, _)
\* G.edges: the edges out of the nodes from the i-th on, node by node
EdgesFromNode(g, i) ==
    IF i > Len(g.order) THEN <<>>
    ELSE out_edges(g, g.order[i]) \o EdgesFromNode(g, i + 1)

\* nx.node_link_graph(json.load(json.dumps(nx.node_link_data(G)))): the nodes with
\* their attributes in their order, the edges added again in the order of G.edges,
\* which is by source node in the order of the nodes and then as out_edges has them
node_link_graph(g) == [g EXCEPT !.edges = EdgesFromNode(g, 1)]

\* attrs.get(key, default)
Get(attrs, key, default) == IF key \in DOMAIN attrs THEN attrs[key] ELSE default

(***************************************************************************)
(* src/Scraper/graph_embedder.py: the selection of the nodes and the       *)
(* context of a node.                                                      *)
(***************************************************************************)
LINK_RELATIONS == {"LINKS_TO_PAGE", "LINKS_TO_EXTERNAL_PAGE"}

\* node_has_link_edges(node)
node_has_link_edges(g, node) ==
    LET out == out_edges(g, node)
        into == in_edges(g, node)
    IN  \/ \E i \in 1..Len(out) : out[i].data.relation \in LINK_RELATIONS
        \/ \E i \in 1..Len(into) : into[i].data.relation \in LINK_RELATIONS

\* should_embed with the link test left to the outgoing edges
should_embed_out_only(g, node, attrs) ==
    LET t == Get(attrs, "type", "")
    IN  IF t \in {"Page_File", "External_Page"} THEN FALSE
        ELSE IF t = "DOM_Element"
        THEN LET out == out_edges(g, node)
             IN  \E i \in 1..Len(out) : out[i].data.relation \in LINK_RELATIONS
        ELSE TRUE

\* should_embed(node, attrs)
should_embed(g, node, attrs) ==
    LET t == Get(attrs, "type", "")
    IN  IF t \in {"Page_File", "External_Page"} THEN FALSE
        ELSE IF t = "DOM_Element" THEN node_has_link_edges(g, node)
        ELSE TRUE

\* the CONTAINS predecessors of current, as the list comprehension has them
contains_preds(g, current) ==
    LET hits == SelectSeq(in_edges(g, current), LAMBDA e : e.data.relation = "CONTAINS")
    IN  [i \in 1..Len(hits) |-> hits[i].u]

\* the state of get_heading_context before its loop
climb_start(node) ==
    [current |-> node, visited |-> {}, headings |-> <<>>, trail |-> <<>>,
     done |-> FALSE]

\* the iteration without the test of visited
climb_step_unguarded(g, c) ==
    LET preds == contains_preds(g, c.current)
        parent == preds[1]
        pdata == g.nodes[parent]
        txt == Get(pdata, "heading_text", <<>>)
        level == Get(pdata, "tag", "h?")
    IN  IF preds = <<>> THEN [c EXCEPT !.done = TRUE]
        ELSE [current |-> parent,
              visited |-> c.visited \cup {parent},
              headings |-> IF Get(pdata, "type", "") = "Section_Heading" /\ txt # <<>>
                           THEN Append(c.headings, <<level, ": ">> \o txt)
                           ELSE c.headings,
              trail |-> Append(c.trail, parent),
              done |-> FALSE]

\* one iteration of the while loop of get_heading_context; trail is the sequence of
\* the parents the loop went to
climb_step(g, c) ==
    LET preds == contains_preds(g, c.current)
        parent == preds[1]
        pdata == g.nodes[parent]
        txt == Get(pdata, "heading_text", <<>>)
        level == Get(pdata, "tag", "h?")
    IN  IF preds = <<>> THEN [c EXCEPT !.done = TRUE]
        ELSE IF parent \in c.visited THEN [c EXCEPT !.done = TRUE]
        ELSE [current |-> parent,
              visited |-> c.visited \cup {parent},
              headings |-> IF Get(pdata, "type", "") = "Section_Heading" /\ txt # <<>>
                           THEN Append(c.headings, <<level, ": ">> \o txt)
                           ELSE c.headings,
              trail |-> Append(c.trail, parent),
              done |-> FALSE]

\* headings.reverse()
Reverse(s) == [i \in 1..Len(s) |-> s[Len(s) + 1 - i]]

RECURSIVE climb_all(_, _, _)
\* the loop of get_heading_context, at most fuel iterations of it
climb_all(g, c, fuel) ==
    IF c.done \/ fuel = 0 THEN c ELSE climb_all(g, climb_step(g, c), fuel - 1)

\* get_heading_context(node); the loop ends within NumNodes(g) + 1 iterations
get_heading_context(g, node) ==
    Reverse(climb_all(g, climb_start(node), NumNodes(g) + 1).headings)

\* the encoder is not part of the repository: in the builds of the index every text
\* gets this vector, the retrieval calls are checked on arbitrary vectors
UnitVector == <<1, 0>>

\* embed_batch(texts)
embed_batch(texts) == [i \in 1..Len(texts) |-> UnitVector]

\* the file names the sites are made of
PageNames == {PageA, PageHttp, PageGoX}

\* the tokens of a node id "<page_name>_<tag>_<idx>", a string without "_" when it is
\* not of this form; the index of an element is a counter of its page and stays
\* within MaxElems, the number of a data link is a count of the graph's nodes
IdTokens(g, node) ==
    LET tag == Get(g.nodes[node], "tag", "DATA")
        top == IF tag = "DATA" THEN NumNodes(g) ELSE MaxElems
        Hit(name, k) == Flat(name) \o "_" \o tag \o "_" \o ToString(k) = node
    IN  IF \E name \in PageNames, k \in 0..top : Hit(name, k)
        THEN LET c == CHOOSE c \in PageNames \X (0..top) : Hit(c[1], c[2])
             IN  c[1] \o <<"_", tag, "_", ToString(c[2])>>
        ELSE <<node>>

\* node_id.split("_", 1)[0]
get_page_name_from_node_id(tokens) == SplitFirst(tokens, "_")

\* the value in place of a node id of a function that returns None
NoNode == ""

\* get_page_file_node(page_name)
get_page_file_node(g, page_name) ==
    LET by_title == SelectSeq(g.order,
                        LAMBDA n : /\ Get(g.nodes[n], "type", "") = "Page_File"
                                   /\ Flat(Get(g.nodes[n], "title", <<>>)) = page_name)
    IN  IF HasNode(g, page_name) /\ Get(g.nodes[page_name], "type", "") = "Page_File"
        THEN page_name
        ELSE IF by_title # <<>> THEN Head(by_title)
        ELSE NoNode

\* the document of a node: its id, the parts of build_node_text (the Page_File node
\* the header names, or NoNode when it has the line "Page ID: ...", and the heading
\* hierarchy) and the metadata
build_doc(g, node, attrs) ==
    LET page_name == Flat(get_page_name_from_node_id(IdTokens(g, node)))
    IN  [id |-> node,
         page_file |-> get_page_file_node(g, page_name),
         page_name |-> page_name,
         headings |-> get_heading_context(g, node),
         type |-> Get(attrs, "type", None),
         tag |-> Get(attrs, "tag", None)]

\* the docs loop: the nodes in their order that should_embed accepts; the text of
\* build_node_text holds the line "Node ID: ..." and is never empty
select_docs(g) ==
    LET hits == SelectSeq(g.order, LAMBDA n : should_embed(g, n, g.nodes[n]))
    IN  [i \in 1..Len(hits) |-> build_doc(g, hits[i], g.nodes[hits[i]])]

\* graph_embedder.py up to the saved index: the graph is read, the documents are
\* selected and embedded, and dom_embeddings.json is written when there is one
EmbedGraph ==
    /\ pc \in {"done", "embedded", "indexed"}
    /\ \E d \in {select_docs(node_link_graph(G))} :
          /\ docs' = d
          /\ index_file' =
                IF d # <<>>
                THEN [exists |-> TRUE,
                      records |-> [i \in 1..Len(d) |->
                                     [id |-> d[i].id, embedding |-> embed_batch(d)[i]]]]
                ELSE index_file
    /\ pc' = "embedded"
    /\ UNCHANGED <<vocab, G, builder, query, results, climb>>

\* src/RAG_V1/build_dom_index.py: every node of the graph is embedded and
\* dom_embeddings.json is written
BuildDomIndex ==
    /\ pc \in {"done", "embedded", "indexed"}
    /\ \E g \in {node_link_graph(G)} :
          index_file' =
             [exists |-> TRUE,
              records |-> [i \in 1..Len(g.order) |->
                             [id |-> g.order[i], embedding |-> embed_batch(g.order)[i]]]]
    /\ pc' = "indexed"
    /\ UNCHANGED <<vocab, G, builder, docs, query, results, climb>>

\* the graph is built and the index is built from it, by either script
NextEmbed ==
    \/ Next
    \/ EmbedGraph
    \/ BuildDomIndex

SpecEmbed == InitEmbed /\ [][NextEmbed]_vars

\* the same on the site with a page name with "_"
SpecHeader == InitHeader /\ [][NextEmbed]_vars

(***************************************************************************)
(* get_heading_context on an arbitrary graph: the graphs dom_graph.json    *)
(* can hold are not only those the builder writes.                         *)
(***************************************************************************)
MaxEdges == 3

ClimbNodes == {"n1", "n2", "n3"}

\* the attributes of the nodes: a heading, a heading without text, another element
ClimbAttrs(n) ==
    IF n = "n1" THEN [type |-> "Section_Heading", tag |-> "h1", heading_text |-> T_Go]
    ELSE IF n = "n2" THEN [type |-> "Section_Heading", tag |-> "h2", heading_text |-> <<>>]
    ELSE [type |-> "DOM_Element", tag |-> "div"]

\* the graph with the nodes of ClimbNodes and no edge
WithNodes ==
    add_node(add_node(add_node(EmptyGraph, "n1", ClimbAttrs("n1")),
                      "n2", ClimbAttrs("n2")),
             "n3", ClimbAttrs("n3"))

RECURSIVE WithEdges(_, _)
WithEdges(g, pairs) ==
    IF pairs = <<>> THEN g
    ELSE WithEdges(add_edge(g, Head(pairs)[1], Head(pairs)[2], [relation |-> "CONTAINS"]),
                   Tail(pairs))

\* the graphs with these nodes and up to MaxEdges CONTAINS edges between any of them,
\* in any order: cycles, self loops, parallel edges and several predecessors
ClimbGraphs ==
    {WithEdges(WithNodes, pairs) :
        pairs \in UNION {[1..m -> ClimbNodes \X ClimbNodes] : m \in 0..MaxEdges}}

\* dom_graph.json is read: G = nx.node_link_graph(graph_data, edges="links")
ClimbLoad ==
    /\ pc = "unread"
    /\ G' \in ClimbGraphs
    /\ pc' = "graph"
    /\ UNCHANGED <<vocab, builder, later>>

\* get_heading_context(node) is called
ClimbCall ==
    /\ pc = "graph"
    /\ \E node \in DOMAIN G.nodes : climb' = climb_start(node)
    /\ pc' = "climbing"
    /\ UNCHANGED <<vocab, G, builder, docs, index_file, query, results>>

\* one iteration of the while loop
ClimbStep ==
    /\ pc = "climbing"
    /\ ~climb.done
    /\ \E c \in {climb_step(G, climb)} : climb' = c
    /\ UNCHANGED <<vocab, pc, G, builder, docs, index_file, query, results>>

\* the loop is left, the headings are reversed and returned
ClimbReturn ==
    /\ pc = "climbing"
    /\ climb.done
    /\ \E h \in {Reverse(climb.headings)} : climb' = [climb EXCEPT !.headings = h]
    /\ pc' = "returned"
    /\ UNCHANGED <<vocab, G, builder, docs, index_file, query, results>>

InitClimb ==
    /\ vocab = "climb"
    /\ pc = "unread"
    /\ listed = 0
    /\ file_contents = <<>>
    /\ G = EmptyGraph
    /\ node_counters = <<>>
    /\ page_i = 0
    /\ pos = NoCall
    /\ node_id = <<>>
    /\ run = 1
    /\ first_run = <<>>
    /\ AtRest

NextClimb ==
    \/ ClimbLoad
    \/ ClimbCall
    \/ ClimbStep
    \/ ClimbReturn

SpecClimb == InitClimb /\ [][NextClimb]_vars

\* the loop and the return are steps of one thread that nothing holds up
SpecClimbFair == SpecClimb /\ WF_vars(ClimbStep) /\ WF_vars(ClimbReturn)

(***************************************************************************)
(* Retrieval: rag_query of src/Scraper/graph_embedder.py and               *)
(* find_best_matches of src/Scraper/visualized_rag.py.  The components of  *)
(* the vectors are integers; a raw score counts units of 0.5e-8, so that   *)
(* the epsilon 1e-8 of the normalization is two units.                     *)
(***************************************************************************)
Epsilon == 2

\* the vectors and the ids of the records of an index, and the query vectors
Vectors == {<<1, 0>>, <<1, 1>>, <<-2, 0>>}
QueryVectors == {<<1, 0>>, <<1, 1>>}
CorpusIds == {"a.html_p_0", "a.html_a_0"}

\* the contents dom_embeddings.json can have
Corpora ==
    UNION {[1..n -> [id : CorpusIds, embedding : Vectors]] : n \in 0..MaxDocs}

RECURSIVE DotFrom(_, _, _)
DotFrom(a, b, i) == IF i > Len(a) THEN 0 ELSE a[i] * b[i] + DotFrom(a, b, i + 1)

\* sims = embs @ q_emb for a matrix embs with at least one row
Sims(embs, q_emb) == [i \in 1..Len(embs) |-> DotFrom(embs[i], q_emb, 1)]

\* -sims
Neg(x) == [i \in 1..Len(x) |-> 0 - x[i]]

\* np.argsort with the sign of the keys lost: the keys in descending order
argsort_descending(keys) ==
    {p \in [1..Len(keys) -> 1..Len(keys)] :
        /\ \A i, j \in 1..Len(keys) : i # j => p[i] # p[j]
        /\ \A i, j \in 1..Len(keys) : i < j => keys[p[i]] >= keys[p[j]]}

\* np.argsort(keys) with the default kind, which is not stable: the index arrays it
\* can return are the permutations that put the keys in ascending order
argsort(keys) ==
    {p \in [1..Len(keys) -> 1..Len(keys)] :
        /\ \A i, j \in 1..Len(keys) : i # j => p[i] # p[j]
        /\ \A i, j \in 1..Len(keys) : i < j => keys[p[i]] <= keys[p[j]]}

\* load_index: ids and embs of the records
load_ids(file) == [i \in 1..Len(file.records) |-> file.records[i].id]
load_embs(file) == [i \in 1..Len(file.records) |-> file.records[i].embedding]

\* order[:top_k - 1]
top_slice_short(order, top_k) == SubSeq(order, 1, Min(top_k - 1, Len(order)))

\* order[:top_k]
top_slice(order, top_k) == SubSeq(order, 1, Min(top_k, Len(order)))

\* the matches of rag_query for the top indices
rag_matches(ids, sims, top) ==
    [r \in 1..Len(top) |-> [node_id |-> ids[top[r]], score |-> sims[top[r]]]]

SeqMin(x) == SetMin({x[i] : i \in 1..Len(x)})
SeqMax(x) == SetMax({x[i] : i \in 1..Len(x)})

\* a normalized score as the fraction num/den
One == [num |-> 1, den |-> 1]

\* the normalization with the division by the largest score
norm_scores_by_max(raw_scores) ==
    LET min_s == SeqMin(raw_scores)
        max_s == SeqMax(raw_scores)
    IN  IF max_s - min_s < Epsilon
        THEN [i \in 1..Len(raw_scores) |-> One]
        ELSE [i \in 1..Len(raw_scores) |-> [num |-> raw_scores[i], den |-> max_s]]

\* norm_scores of find_best_matches for a list of raw scores that is not empty
norm_scores(raw_scores) ==
    LET min_s == SeqMin(raw_scores)
        max_s == SeqMax(raw_scores)
    IN  IF max_s - min_s < Epsilon
        THEN [i \in 1..Len(raw_scores) |-> One]
        ELSE [i \in 1..Len(raw_scores) |->
                [num |-> raw_scores[i] - min_s, den |-> max_s - min_s]]

\* the matches of find_best_matches
best_matches(ids, top, raw_scores, ns) ==
    [r \in 1..Len(top) |->
        [node_id |-> ids[top[r]], score |-> raw_scores[r], norm_score |-> ns[r],
         rank |-> r]]

\* scores_dict: the normalized score of the last match with the node id
scores_of(ids, top, ns) ==
    [n \in {ids[top[r]] : r \in 1..Len(top)} |->
        ns[SetMax({r \in 1..Len(top) : ids[top[r]] = n})]]

\* rag_query(query, top_k): embs of an index without records has the shape (0,), and
\* embs @ q_emb raises ValueError
RagQuery ==
    /\ pc = "ready"
    /\ LET ids == load_ids(index_file)
           embs == load_embs(index_file)
       IN  IF embs = <<>>
           THEN pc' = "raised" /\ UNCHANGED results
           ELSE \E top \in {top_slice(query.order, query.top_k)} :
                   /\ results' = [by |-> "rag_query", top_indices |-> top,
                                  matches |-> rag_matches(ids, Sims(embs, query.q_emb), top),
                                  scores_dict |-> <<>>]
                   /\ pc' = "answered"
    /\ UNCHANGED <<vocab, G, builder, docs, index_file, query, climb>>

\* find_best_matches(query, top_k)
FindBestMatches ==
    /\ pc = "ready"
    /\ LET ids == load_ids(index_file)
           embs == load_embs(index_file)
       IN  IF embs = <<>>
           THEN pc' = "raised" /\ UNCHANGED results
           ELSE \E top \in {top_slice(query.order, query.top_k)} :
                \E raw_scores \in {[r \in 1..Len(top) |->
                                       Sims(embs, query.q_emb)[top[r]]]} :
                \E ns \in {norm_scores(raw_scores)} :
                   /\ results' = [by |-> "find_best_matches", top_indices |-> top,
                                  matches |-> best_matches(ids, top, raw_scores, ns),
                                  scores_dict |-> scores_of(ids, top, ns)]
                   /\ pc' = "answered"
    /\ UNCHANGED <<vocab, G, builder, docs, index_file, query, climb>>

\* an index file, a query vector, a top_k; order is the index array that np.argsort
\* of this build returns for -sims
InitQuery ==
    /\ vocab = "query"
    /\ pc = "ready"
    /\ listed = 0
    /\ file_contents = <<>>
    /\ G = EmptyGraph
    /\ node_counters = <<>>
    /\ page_i = 0
    /\ pos = NoCall
    /\ node_id = <<>>
    /\ run = 1
    /\ first_run = <<>>
    /\ docs = <<>>
    /\ results = NoResults
    /\ climb = NoClimb
    /\ \E r \in Corpora : index_file = [exists |-> TRUE, records |-> r]
    /\ \E q \in QueryVectors :
       \E o \in argsort(Neg(Sims(load_embs(index_file), q))) :
       \E k \in 1..MaxDocs + 1 :
          query = [q_emb |-> q, top_k |-> k, order |-> o]

NextQuery ==
    \/ RagQuery
    \/ FindBestMatches

SpecQuery == InitQuery /\ [][NextQuery]_vars

(***************************************************************************)
(* Vocabulary of the properties: what the input says, read off the         *)
(* documents, and what the graph holds.                                    *)
(***************************************************************************)
Edges == {k \in 1..Len(G.edges) : TRUE}
EdgesInto(n, rel) == {k \in Edges : G.edges[k].v = n /\ G.edges[k].data.relation = rel}
EdgesFrom(n, rel) == {k \in Edges : G.edges[k].u = n /\ G.edges[k].data.relation = rel}
LinkRelations == {"LINKS_TO_PAGE", "LINKS_TO_EXTERNAL_PAGE", "CONTAINS_DATA"}
LinkEdgesFrom(n) == {k \in Edges : G.edges[k].u = n /\ G.edges[k].data.relation # "CONTAINS"}

NodesOfType(t) ==
    {n \in DOMAIN G.nodes : "type" \in DOMAIN G.nodes[n] /\ G.nodes[n].type = t}
ElementNodes == {n \in DOMAIN G.nodes : "tag" \in DOMAIN G.nodes[n]}

DocOf(k) == file_contents[k].doc
NameOf(k) == Flat(file_contents[k].name)
KnownPages == {NameOf(k) : k \in 1..Len(file_contents)}

\* the elements of page k that have got a node, and the anchors with an href among them
Visited == DOMAIN node_id
VisitedAnchors ==
    {e \in Visited : e[2] # 0 /\ DocOf(e[1])[e[2]].tag = "a" /\ DocOf(e[1])[e[2]].href # NoAttr}
IdOf(e) == Flat(node_id[e])
\* the target of an anchor after fragment stripping, and its last path segment
TargetOf(e) == SplitFirst(DocOf(e[1])[e[2]].href, "#")
LastSegment(h) == Flat(SplitLast(h, "/"))

\* the elements the pre-order walk of a document reaches: those at or below the
\* root with no skipped element on the way from the root
Reached(doc) ==
    {i \in Subtree(doc, Root(doc)) :
        \A j \in ({i} \cup Parents(doc, i)) \cap Subtree(doc, Root(doc)) :
            TagName(doc, j) \notin SkippedTags}

(***************************************************************************)
(* C1.  Containment is a tree per page.                                    *)
(***************************************************************************)
\* the page a node belongs to: its page attribute, the page itself, or the page of
\* the anchor a Data_Link hangs off
RECURSIVE OwnerOf(_)
OwnerOf(n) ==
    IF n \in ElementNodes THEN G.nodes[n].page
    ELSE IF EdgesInto(n, "CONTAINS_DATA") # {}
    THEN OwnerOf(G.edges[SetMin(EdgesInto(n, "CONTAINS_DATA"))].u)
    ELSE n

OneContainsParent(n) ==
    /\ Cardinality(EdgesInto(n, "CONTAINS")) = 1
    /\ \A k \in EdgesInto(n, "CONTAINS") : OwnerOf(G.edges[k].u) = OwnerOf(n)

RECURSIVE ContainsRoot(_, _)
\* the node reached from n by climbing CONTAINS edges, at most fuel of them
ContainsRoot(n, fuel) ==
    IF fuel = 0 \/ EdgesInto(n, "CONTAINS") = {} THEN n
    ELSE ContainsRoot(G.edges[SetMin(EdgesInto(n, "CONTAINS"))].u, fuel - 1)

\* C1 as stated: when the build is done no Page_File node is the target of a CONTAINS
\* edge, and every element node and every Data_Link node has exactly one incoming
\* CONTAINS edge, from a node of its own page.
C1_TreeWithDataLinks ==
    pc = "done" =>
        /\ \A p \in NodesOfType("Page_File") : EdgesInto(p, "CONTAINS") = {}
        /\ \A n \in ElementNodes \cup NodesOfType("Data_Link") : OneContainsParent(n)

\* C1 as amended: when the build is done no Page_File node is the target of a
\* CONTAINS edge, every element node has exactly one incoming CONTAINS edge, from a
\* node of its own page, and climbs along CONTAINS edges to the Page_File node of its
\* page; a Data_Link node has no incoming CONTAINS edge.
C1_ElementTree ==
    pc = "done" =>
        /\ \A p \in NodesOfType("Page_File") : EdgesInto(p, "CONTAINS") = {}
        /\ \A n \in ElementNodes :
              /\ OneContainsParent(n)
              /\ ContainsRoot(n, NumNodes(G)) = G.nodes[n].page
              /\ G.nodes[n].page \in NodesOfType("Page_File")
        /\ \A d \in NodesOfType("Data_Link") : EdgesInto(d, "CONTAINS") = {}

\* a finished build with a Data_Link node and an element two levels below its root
C1_Witness ==
    /\ pc = "done"
    /\ NodesOfType("Data_Link") # {}
    /\ \E n \in ElementNodes : G.nodes[n].depth >= 2

(***************************************************************************)
(* C2.  External pages are merged by URL.                                  *)
(***************************************************************************)
\* a target that begins with http:// or https://
HttpUrl(h) == StripScheme(h) # h
HttpAnchors == {e \in VisitedAnchors : HttpUrl(TargetOf(e))}
AnchorsTo(u) == {e \in VisitedAnchors : Flat(TargetOf(e)) = u}
ExternalEdges(u) == EdgesInto(u, "LINKS_TO_EXTERNAL_PAGE")

\* one LINKS_TO_EXTERNAL_PAGE edge into u per anchor with target u, and no other
OneEdgePerAnchor(u) ==
    /\ Cardinality(ExternalEdges(u)) = Cardinality(AnchorsTo(u))
    /\ \A e \in AnchorsTo(u) :
          Cardinality({k \in ExternalEdges(u) : G.edges[k].u = IdOf(e)}) = 1

\* C2 as stated: when the build is done, every http(s) URL that is the target of an
\* anchor is the key of an External_Page node with one LINKS_TO_EXTERNAL_PAGE edge
\* into it per anchor with that target.
C2_EveryHttpUrl ==
    pc = "done" =>
        \A a \in HttpAnchors :
            LET u == Flat(TargetOf(a))
            IN  u \in NodesOfType("External_Page") /\ OneEdgePerAnchor(u)

\* C2 as amended: when the build is done, every http(s) URL whose last path segment
\* is no known page and that is the target of an anchor is the key of an
\* External_Page node with one LINKS_TO_EXTERNAL_PAGE edge into it per anchor with
\* that target.  The anchors to an http(s) URL whose last path segment is a known
\* page have a LINKS_TO_PAGE edge to that page and no LINKS_TO_EXTERNAL_PAGE edge,
\* and the URL is the key of no node.
C2_Dedup ==
    pc = "done" =>
        \A a \in HttpAnchors :
            LET u == Flat(TargetOf(a))
            IN  IF LastSegment(TargetOf(a)) \in KnownPages
                THEN /\ ~HasNode(G, u)
                     /\ \A e \in AnchorsTo(u) :
                           /\ EdgesFrom(IdOf(e), "LINKS_TO_EXTERNAL_PAGE") = {}
                           /\ \E k \in EdgesFrom(IdOf(e), "LINKS_TO_PAGE") :
                                 G.edges[k].v = LastSegment(TargetOf(a))
                ELSE /\ u \in NodesOfType("External_Page")
                     /\ OneEdgePerAnchor(u)

\* a finished build in which anchors of two pages link to the same external URL
C2_Witness ==
    /\ pc = "done"
    /\ \E a, b \in HttpAnchors :
          /\ a[1] # b[1]
          /\ TargetOf(a) = TargetOf(b)
          /\ Flat(TargetOf(a)) \in NodesOfType("External_Page")

(***************************************************************************)
(* C3.  Data_Link nodes are never merged.                                  *)
(***************************************************************************)
\* the anchors whose target takes the mailto/tel branch
DataAnchors ==
    {e \in VisitedAnchors :
        /\ LastSegment(TargetOf(e)) \notin KnownPages
        /\ ~MatchHttp(TargetOf(e))
        /\ MatchData(TargetOf(e))}

DataLinkAttrs == {"type", "data_type", "value", "label"}

\* C3: when the build is done there are as many Data_Link nodes as anchors with a
\* mailto: or tel: target, each has exactly one incoming CONTAINS_DATA edge, and none
\* is at the same time another node: it has the attributes of a Data_Link only and
\* no other edge ends at it.
C3_DataLinksDistinct ==
    pc = "done" =>
        /\ Cardinality(NodesOfType("Data_Link")) = Cardinality(DataAnchors)
        /\ \A d \in NodesOfType("Data_Link") :
              /\ Cardinality(EdgesInto(d, "CONTAINS_DATA")) = 1
              /\ DOMAIN G.nodes[d] = DataLinkAttrs
              /\ \A k \in Edges : G.edges[k].v = d =>
                    G.edges[k].data.relation = "CONTAINS_DATA"

EarlierSameTag(doc, reached, i) ==
    {j \in reached : j < i /\ TagName(doc, j) = TagName(doc, i)}

\* the id p_t_n as get_node_id writes it
IdFor(k, t, n) == file_contents[k].name \o <<"_", t, "_", ToString(n)>>

\* C5: the n-th reached element with tag name t of page p has the id p_t_(n-1), and
\* the counter of p and t is the number of elements of p with tag name t that have
\* an id: nothing else advances it.
C5_AllocationRule ==
    \A k \in 1..Len(file_contents) :
        LET doc == DocOf(k)
            reached == Reached(doc)
            sofar == Created(k)
        IN  /\ sofar \subseteq reached
            /\ \A i \in sofar :
                  /\ node_id[<<k, i>>] =
                        IdFor(k, TagName(doc, i), Cardinality(EarlierSameTag(doc, reached, i)))
                  /\ HasNode(G, IdOf(<<k, i>>))
            /\ IF sofar = {}
               THEN NameOf(k) \notin DOMAIN node_counters
               ELSE /\ NameOf(k) \in DOMAIN node_counters
                    /\ DOMAIN node_counters[NameOf(k)] = {TagName(doc, j) : j \in sofar}
                    /\ \A t \in DOMAIN node_counters[NameOf(k)] :
                          node_counters[NameOf(k)][t] =
                             Cardinality({j \in sofar : TagName(doc, j) = t})

\* an element got the second id of its tag name after a skipped element and the
\* Data_Link node of an anchor came before it on its page
C5_Witness ==
    \E e \in Visited :
        /\ node_id[e][Len(node_id[e])] = "1"
        /\ \E j \in 1..(e[2] - 1) : TagName(DocOf(e[1]), j) \in SkippedTags
        /\ NodesOfType("Data_Link") # {}

(***************************************************************************)
(* C6.  The order of the link rules.                                       *)
(***************************************************************************)
\* the relation the rules (a) to (d), tried in this order, give a target
RelationFor(h) ==
    IF LastSegment(h) \in KnownPages THEN "LINKS_TO_PAGE"
    ELSE IF MatchHttp(h) THEN "LINKS_TO_EXTERNAL_PAGE"
    ELSE IF MatchData(h) THEN "CONTAINS_DATA"
    ELSE "none"

\* C6: an anchor with an href has no edge besides CONTAINS edges when no rule
\* matches its target, and else exactly one, with the relation of the first rule that
\* matches: to the page of the last path segment, to the node keyed by the URL, or
\* to a Data_Link node.
C6_ClassificationOrder ==
    \A e \in VisitedAnchors :
        LET out == LinkEdgesFrom(IdOf(e))
            h == TargetOf(e)
            r == RelationFor(h)
        IN  IF r = "none" THEN out = {}
            ELSE /\ Cardinality(out) = 1
                 /\ \A k \in out :
                       /\ G.edges[k].data.relation = r
                       /\ r = "LINKS_TO_PAGE" => G.edges[k].v = LastSegment(h)
                       /\ r = "LINKS_TO_EXTERNAL_PAGE" => G.edges[k].v = Flat(h)
                       /\ r = "CONTAINS_DATA" => G.edges[k].v \in NodesOfType("Data_Link")

\* an anchor to an http(s) URL whose last path segment is a known page has a
\* LINKS_TO_PAGE edge
C6_Witness ==
    \E e \in VisitedAnchors :
        /\ MatchHttp(TargetOf(e))
        /\ LastSegment(TargetOf(e)) \in KnownPages
        /\ EdgesFrom(IdOf(e), "LINKS_TO_PAGE") # {}

(***************************************************************************)
(* C7.  Links of a page to itself.                                         *)
(***************************************************************************)
\* C7: no LINKS_TO_PAGE edge starts at an element of the page it ends at.
C7_NoSelfLinks ==
    \A k \in Edges :
        G.edges[k].data.relation = "LINKS_TO_PAGE" =>
            OwnerOf(G.edges[k].u) # G.edges[k].v

(***************************************************************************)
(* C8.  Anchors whose target no rule resolves.                             *)
(***************************************************************************)
\* an href that is missing, empty, only a fragment, a javascript: URL or a relative
\* path, the last two with a last path segment that is no known page
UnresolvableTarget(h) ==
    \/ h = NoAttr
    \/ h = <<>>
    \/ Head(h) = "#"
    \/ /\ LastSegment(SplitFirst(h, "#")) \notin KnownPages
       /\ \/ Len(h) >= 2 /\ h[1] = "javascript" /\ h[2] = ":"
          \/ Occ(h, ":") = {} /\ ~MatchHttp(h)

\* the call of build_dom_tree that is next is on an anchor with such a target
AtUnresolvable ==
    /\ pc = "walk"
    /\ pos # 0
    /\ DocOf(page_i)[pos].tag = "a"
    /\ UnresolvableTarget(DocOf(page_i)[pos].href)

ImagesWithAlt(doc, i) ==
    {j \in Subtree(doc, i) \ {i} :
        doc[j].tag = "img" /\ doc[j].alt # NoAttr /\ doc[j].alt # <<>>}

\* the visible text of the link, else the alt text of its image, cut to 50
\* characters, else "Link"
AnchorTextOf(doc, i) ==
    IF GetText(doc, i, TRUE) # <<>> THEN Truncate(GetText(doc, i, TRUE), AnchorLen)
    ELSE IF ImagesWithAlt(doc, i) # {}
    THEN Truncate(doc[SetMin(ImagesWithAlt(doc, i))].alt, AnchorLen)
    ELSE <<"L", "i", "n", "k">>

\* C9: the anchor attribute of every link edge of an anchor, and the label of the
\* Data_Link node it ends at, is the visible text of the anchor, else the alt text of
\* its image, cut to 50 characters, else "Link", and is never empty.
C9_AnchorText ==
    \A e \in VisitedAnchors :
        \A k \in LinkEdgesFrom(IdOf(e)) :
            /\ G.edges[k].data.anchor # <<>>
            /\ G.edges[k].data.anchor = AnchorTextOf(DocOf(e[1]), e[2])
            /\ G.edges[k].data.relation = "CONTAINS_DATA" =>
                  G.nodes[G.edges[k].v].label = AnchorTextOf(DocOf(e[1]), e[2])

(***************************************************************************)
(* C10.  The build never aborts.                                           *)
(***************************************************************************)
\* C10: the build does not abort, and when it is done every page has its Page_File
\* node with a title.
C10_NeverAborts ==
    /\ pc # "crashed"
    /\ pc = "done" =>
          \A k \in 1..Len(file_contents) :
              /\ NameOf(k) \in NodesOfType("Page_File")
              /\ "title" \in DOMAIN G.nodes[NameOf(k)]

(***************************************************************************)
(* C11.  A page without elements.                                          *)
(***************************************************************************)
\* the nodes that carry the page attribute of page k
NodesOfPage(k) ==
    {n \in DOMAIN G.nodes : Get(G.nodes[n], "page", None) = NameOf(k)}

\* C11: when the build is done, a page whose document has no element has its
\* Page_File node, no CONTAINS edge leaves that node, and no other node belongs to
\* the page.
C11_EmptyPage ==
    pc = "done" =>
        \A k \in 1..Len(file_contents) :
            DocOf(k) = <<>> =>
                /\ NameOf(k) \in NodesOfType("Page_File")
                /\ EdgesFrom(NameOf(k), "CONTAINS") = {}
                /\ NodesOfPage(k) = {}

(***************************************************************************)
(* C12.  The selection policy of the embedder.                             *)
(***************************************************************************)
\* the ids of the documents graph_embedder selected
DocIds == {docs[i].id : i \in 1..Len(docs)}

\* a LINKS_TO_PAGE or LINKS_TO_EXTERNAL_PAGE edge begins or ends at n
OnLinkEdge(n) ==
    \E k \in Edges :
        /\ G.edges[k].data.relation \in {"LINKS_TO_PAGE", "LINKS_TO_EXTERNAL_PAGE"}
        /\ G.edges[k].u = n \/ G.edges[k].v = n

\* C12: after graph_embedder has selected the documents, a DOM_Element node is
\* selected if and only if a LINKS_TO_PAGE or LINKS_TO_EXTERNAL_PAGE edge begins or
\* ends at it, and every node whose type is not DOM_Element, Page_File or
\* External_Page is selected.
C12_SelectionPolicy ==
    pc = "embedded" =>
        \A n \in DOMAIN G.nodes :
            LET t == Get(G.nodes[n], "type", "")
            IN  /\ t = "DOM_Element" => (n \in DocIds <=> OnLinkEdge(n))
                /\ t \notin {"DOM_Element", "Page_File", "External_Page"} => n \in DocIds

\* the documents are selected: a DOM_Element is among them that only has an incoming
\* link edge, another DOM_Element with a CONTAINS_DATA edge is not, and a Data_Link
\* and a Section_Heading are
C12_Witness ==
    /\ pc = "embedded"
    /\ \E n \in NodesOfType("DOM_Element") \cap DocIds :
          /\ EdgesFrom(n, "LINKS_TO_PAGE") \cup EdgesFrom(n, "LINKS_TO_EXTERNAL_PAGE") = {}
          /\ EdgesInto(n, "LINKS_TO_EXTERNAL_PAGE") # {}
    /\ \E n \in NodesOfType("DOM_Element") \ DocIds : EdgesFrom(n, "CONTAINS_DATA") # {}
    /\ NodesOfType("Data_Link") \cap DocIds # {}
    /\ NodesOfType("Section_Heading") \cap DocIds # {}

(***************************************************************************)
(* C13.  The records of the persisted index.                               *)
(***************************************************************************)
\* the ids of the records of dom_embeddings.json
RecordIds == {index_file.records[i].id : i \in 1..Len(index_file.records)}

\* C13: every record id of the persisted index is a node of the graph that the
\* selection policy accepts: it is no Page_File and no External_Page node, and a
\* DOM_Element only with a link edge at it.
C13_CorpusEmbeddable ==
    \A n \in RecordIds :
        /\ n \in DOMAIN G.nodes
        /\ Get(G.nodes[n], "type", "") \notin {"Page_File", "External_Page"}
        /\ Get(G.nodes[n], "type", "") = "DOM_Element" => OnLinkEdge(n)

(***************************************************************************)
(* C14.  The ranking of a retrieval call.                                  *)
(***************************************************************************)
\* the raw score of every record of the index for the query vector
ScoreOf(i) == DotFrom(index_file.records[i].embedding, query.q_emb, 1)
Positions == 1..Len(index_file.records)
Returned == {results.top_indices[r] : r \in 1..Len(results.top_indices)}

\* C14: a retrieval call on an index with n >= 1 records returns min(top_k, n)
\* matches, of different records, each with the id of its record and the dot product
\* of its vector with the query vector as score, in non-increasing order of the
\* scores, none smaller than the score of a record that is not returned; with
\* top_k >= n every record is returned.
C14_Ranking ==
    pc = "answered" =>
        LET top == results.top_indices
            m == results.matches
        IN  /\ Len(m) = Min(query.top_k, Len(index_file.records))
            /\ Len(top) = Len(m)
            /\ \A r, t \in 1..Len(top) : r # t => top[r] # top[t]
            /\ \A r \in 1..Len(m) :
                  /\ top[r] \in Positions
                  /\ m[r].node_id = index_file.records[top[r]].id
                  /\ m[r].score = ScoreOf(top[r])
                  /\ \A j \in Positions \ Returned : m[r].score >= ScoreOf(j)
            /\ \A r, t \in 1..Len(m) : r < t => m[r].score >= m[t].score
            /\ query.top_k >= Len(index_file.records) => Returned = Positions

\* rag_query has returned two of three records whose scores are not all the same
C14_Witness ==
    /\ pc = "answered"
    /\ results.by = "rag_query"
    /\ Len(index_file.records) = 3
    /\ Len(results.matches) = 2
    /\ \E i, j \in Positions : ScoreOf(i) # ScoreOf(j)

(***************************************************************************)
(* C15.  Ties of the raw score.                                            *)
(***************************************************************************)
\* the rank of a returned position in top_indices
RankOf(i) == CHOOSE r \in 1..Len(results.top_indices) : results.top_indices[r] = i

\* C15: of two records with the same raw score the one earlier in the index is
\* ranked before the other, and is the one that is kept when only one is returned.
C15_StableTies ==
    pc = "answered" =>
        \A i, j \in Positions :
            (i < j /\ ScoreOf(i) = ScoreOf(j) /\ j \in Returned) =>
                (i \in Returned /\ RankOf(i) < RankOf(j))

(***************************************************************************)
(* C16.  A retrieval call on an index without records.                     *)
(***************************************************************************)
\* C16: a retrieval call on an index that holds no record returns an empty result
\* and raises nothing.
C16_EmptyCorpus ==
    (Len(index_file.records) = 0 /\ pc # "ready") =>
        (pc = "answered" /\ results.matches = <<>>)

(***************************************************************************)
(* C17.  The normalized scores of find_best_matches.                       *)
(***************************************************************************)
MatchScores == {results.matches[r].score : r \in 1..Len(results.matches)}

\* C17: every normalized score of find_best_matches lies in [0,1]; when the largest
\* and the smallest raw score of the matches differ by less than the epsilon, every
\* normalized score is 1.0; otherwise the normalized score of a match with raw score s
\* is (s - min)/(max - min), the best match has 1.0, the worst has 0.0, and the
\* normalized scores are in the order of the raw scores.
C17_Normalization ==
    (pc = "answered" /\ results.by = "find_best_matches") =>
        LET m == results.matches
            min_s == SetMin(MatchScores)
            max_s == SetMax(MatchScores)
        IN  /\ \A r \in 1..Len(m) :
                  /\ m[r].norm_score.den > 0
                  /\ 0 <= m[r].norm_score.num
                  /\ m[r].norm_score.num <= m[r].norm_score.den
                  /\ results.scores_dict[m[r].node_id] \in
                        {m[t].norm_score : t \in 1..Len(m)}
            /\ max_s - min_s < Epsilon => \A r \in 1..Len(m) : m[r].norm_score = One
            /\ max_s - min_s >= Epsilon =>
                  \A r \in 1..Len(m) :
                      /\ m[r].norm_score.num * (max_s - min_s)
                            = (m[r].score - min_s) * m[r].norm_score.den
                      /\ m[r].score = max_s => m[r].norm_score.num = m[r].norm_score.den
                      /\ m[r].score = min_s => m[r].norm_score.num = 0
            /\ \A r, t \in 1..Len(m) :
                  m[r].score >= m[t].score =>
                      m[r].norm_score.num * m[t].norm_score.den
                          >= m[t].norm_score.num * m[r].norm_score.den

\* find_best_matches has returned a match whose normalized score is strictly between
\* 0 and 1
C17_Witness ==
    /\ pc = "answered"
    /\ results.by = "find_best_matches"
    /\ \E r \in 1..Len(results.matches) :
          /\ 0 < results.matches[r].norm_score.num
          /\ results.matches[r].norm_score.num < results.matches[r].norm_score.den

\* find_best_matches has returned matches whose raw scores differ by less than the
\* epsilon without being equal
C17_NearTie ==
    /\ pc = "answered"
    /\ results.by = "find_best_matches"
    /\ SetMax(MatchScores) - SetMin(MatchScores) = 1

(***************************************************************************)
(* C18.  Skipped subtrees.                                                 *)
(***************************************************************************)
NonRendering == {"script", "style", "meta", "link", "br", "hr"}

\* the elements at or below the root of a document that are not non-rendering and
\* have no non-rendering ancestor below or at the root
Rendered(doc) ==
    {i \in Subtree(doc, Root(doc)) :
        \A j \in ({i} \cup Parents(doc, i)) \cap Subtree(doc, Root(doc)) :
            TagName(doc, j) \notin NonRendering}

RenderedAnchors(doc) == {i \in Rendered(doc) \ {0} : doc[i].tag = "a" /\ doc[i].href # NoAttr}
NodesOfPage18(k) == {n \in ElementNodes : G.nodes[n].page = NameOf(k)}

\* C18: an element with the tag script, style, meta, link, br or hr, and every
\* descendant of one, never gets a node; when the build is done the element nodes of a
\* page are those of its other elements below the root (following siblings of a
\* skipped element among them), with one CONTAINS edge each, and every link or data
\* edge starts at the node of an anchor that is not in a skipped subtree.
C18_SkippedSubtrees ==
    /\ \A k \in 1..Len(file_contents) : Created(k) \subseteq Rendered(DocOf(k))
    /\ pc = "done" =>
          \A k \in 1..Len(file_contents) :
              LET doc == DocOf(k)
                  ids == {IdOf(<<k, i>>) : i \in Rendered(doc)}
              IN  /\ Created(k) = Rendered(doc)
                  /\ NodesOfPage18(k) = ids
                  /\ Cardinality(ids) = Cardinality(Rendered(doc))
                  /\ Cardinality({x \in Edges : /\ G.edges[x].data.relation = "CONTAINS"
                                                /\ G.edges[x].v \in ids})
                        = Cardinality(Rendered(doc))
                  /\ {G.edges[x].u : x \in {y \in Edges :
                            /\ G.edges[y].data.relation # "CONTAINS"
                            /\ G.edges[y].u \in ids}}
                        = {IdOf(<<k, i>>) : i \in RenderedAnchors(doc)}
                  /\ Cardinality({y \in Edges : /\ G.edges[y].data.relation # "CONTAINS"
                                                /\ G.edges[y].u \in ids})
                        = Cardinality(RenderedAnchors(doc))

\* a finished build of a page with an anchor with a target inside a script element
\* and a later sibling of the script element that has got a node
C18_Witness ==
    /\ pc = "done"
    /\ \E k \in 1..Len(file_contents) :
       \E i, j, s \in 1..Len(DocOf(k)) :
          /\ DocOf(k)[i].tag = "script"
          /\ i \in Subtree(DocOf(k), Root(DocOf(k)))
          /\ Parent(DocOf(k), j) = i
          /\ DocOf(k)[j].tag = "a" /\ DocOf(k)[j].href # NoAttr
          /\ s > j /\ Parent(DocOf(k), s) = Parent(DocOf(k), i)
          /\ <<k, s>> \in Visited

(***************************************************************************)
(* C19.  The heading hierarchy of a node.                                  *)
(***************************************************************************)
RECURSIVE HeadingAncestors(_, _)
\* one entry "{tag}: {heading_text}" for every strict ancestor of type
\* Section_Heading on the CONTAINS chain of n, the outermost first; at most fuel
\* ancestors are looked at
HeadingAncestors(n, fuel) ==
    IF fuel = 0 \/ EdgesInto(n, "CONTAINS") = {} THEN <<>>
    ELSE LET p == G.edges[SetMin(EdgesInto(n, "CONTAINS"))].u
         IN  HeadingAncestors(p, fuel - 1) \o
             (IF p \in NodesOfType("Section_Heading")
              THEN <<(<<G.nodes[p].tag, ": ">> \o G.nodes[p].heading_text)>>
              ELSE <<>>)

\* C19: the heading hierarchy of every document of graph_embedder.py has one entry
\* "{tag}: {heading_text}" for every strict ancestor of type Section_Heading of its
\* node, and nothing else, from the outermost to the innermost.
C19_HeadingHierarchy ==
    pc = "embedded" =>
        \A i \in 1..Len(docs) :
            docs[i].headings = HeadingAncestors(docs[i].id, NumNodes(G))

\* the same where no Section_Heading node has an empty heading_text
C19_TextedHeadings ==
    (pc = "embedded" /\ \A p \in NodesOfType("Section_Heading") : G.nodes[p].heading_text # <<>>) =>
        \A i \in 1..Len(docs) :
            docs[i].headings = HeadingAncestors(docs[i].id, NumNodes(G))

(***************************************************************************)
(* C20.  The walk to the heading ancestors terminates.                     *)
(***************************************************************************)
\* each ancestor is visited at most once, and the loop is left only at a node without
\* CONTAINS predecessor or whose first CONTAINS predecessor was visited before
C20_WalkInvariant ==
    pc \in {"climbing", "returned"} =>
        /\ \A i, j \in 1..Len(climb.trail) : i # j => climb.trail[i] # climb.trail[j]
        /\ climb.visited = {climb.trail[i] : i \in 1..Len(climb.trail)}
        /\ Len(climb.trail) <= NumNodes(G)
        /\ climb.trail # <<>> => climb.current = climb.trail[Len(climb.trail)]
        /\ \A i \in 2..Len(climb.trail) :
              \E k \in EdgesInto(climb.trail[i - 1], "CONTAINS") :
                  G.edges[k].u = climb.trail[i]
        /\ climb.done =>
              \/ EdgesInto(climb.current, "CONTAINS") = {}
              \/ G.edges[SetMin(EdgesInto(climb.current, "CONTAINS"))].u \in climb.visited

\* C20: on every graph, with cycles of CONTAINS edges or several CONTAINS
\* predecessors of a node, a call of get_heading_context returns; it visits each
\* ancestor at most once and stops at the first repeated ancestor or at a node without
\* CONTAINS predecessor.
C20_WalkTerminates ==
    /\ []C20_WalkInvariant
    /\ (pc = "climbing") ~> (pc = "returned")

\* a call has returned after it went round a cycle of three nodes
C20_Witness ==
    /\ pc = "returned"
    /\ Len(climb.trail) = 3
    /\ EdgesInto(climb.current, "CONTAINS") # {}

(***************************************************************************)
(* C21.  The page a document names.                                        *)
(***************************************************************************)
\* C21: for every document of graph_embedder.py the page_name of the metadata is the
\* page during whose traversal the node was created, and the header names this page:
\* with the line "Page: ... (file: f)" f is this page, with the line "Page ID: p" p is.
C21_OwningPage ==
    pc = "embedded" =>
        \A i \in 1..Len(docs) :
            OwnerOf(docs[i].id) \in NodesOfType("Page_File") =>
                /\ docs[i].page_name = OwnerOf(docs[i].id)
                /\ IF docs[i].page_file # NoNode
                   THEN docs[i].page_file = OwnerOf(docs[i].id)
                   ELSE docs[i].page_name = OwnerOf(docs[i].id)

\* the same for the nodes of the pages without "_" in their name
C21_PlainNames ==
    pc = "embedded" =>
        \A i \in 1..Len(docs) :
            (/\ OwnerOf(docs[i].id) \in NodesOfType("Page_File")
             /\ OwnerOf(docs[i].id) # Flat(PageGoX)) =>
                /\ docs[i].page_name = OwnerOf(docs[i].id)
                /\ docs[i].page_file = OwnerOf(docs[i].id)

\* the header of a node of Go_x.html names a.html, found by its title "Go"
C21_OtherPageNamed ==
    /\ pc = "embedded"
    /\ \E i \in 1..Len(docs) :
          /\ OwnerOf(docs[i].id) = Flat(PageGoX)
          /\ docs[i].page_file = Flat(PageA)

(***************************************************************************)
(* C22.  The ordinals of the path of an element.                           *)
(***************************************************************************)
RECURSIVE AncestorAt(_, _, _)
\* the n-th ancestor of element i, the element itself for n = 0
AncestorAt(doc, i, n) == IF n = 0 THEN i ELSE AncestorAt(doc, Parent(doc, i), n - 1)

\* the 1-based position of element i among the children of its parent with its tag
\* name
OrdinalByName(doc, i) ==
    Cardinality({j \in Children(doc, Parent(doc, i)) :
                    doc[j].tag = doc[i].tag /\ j <= i})

\* C22: every segment tag[i] of the xpath attribute of an element node carries the tag
\* name of the element it stands for (the element or one of its ancestors) and its
\* 1-based position among the children of its parent with the same tag name.
C22_PathOrdinals ==
    \A e \in Visited :
        e[2] # 0 =>
            LET doc == DocOf(e[1])
                path == G.nodes[IdOf(e)].xpath
            IN  \A k \in 1..Len(path) :
                    LET a == AncestorAt(doc, e[2], Len(path) - k)
                    IN  /\ path[k].tag = doc[a].tag
                        /\ path[k].index = OrdinalByName(doc, a)

\* the same for the elements that have no sibling equal to them in name, attributes
\* and contents, and no ancestor that has one
C22_NoEqualSiblings ==
    \A e \in Visited :
        (/\ e[2] # 0
         /\ \A a \in ({e[2]} \cup Parents(DocOf(e[1]), e[2])) \ {0} :
               \A j \in same_tag_siblings(DocOf(e[1]), a) :
                   j # a => ~TagEq(DocOf(e[1]), j, a)) =>
            LET doc == DocOf(e[1])
                path == G.nodes[IdOf(e)].xpath
            IN  \A k \in 1..Len(path) :
                    LET a == AncestorAt(doc, e[2], Len(path) - k)
                    IN  /\ path[k].tag = doc[a].tag
                        /\ path[k].index = OrdinalByName(doc, a)

\* two sibling elements with equal name, attributes and contents have the same path
C22_SamePath ==
    \E e, f \in Visited :
        /\ e # f /\ e[1] = f[1] /\ e[2] # 0 /\ f[2] # 0
        /\ Parent(DocOf(e[1]), e[2]) = Parent(DocOf(f[1]), f[2])
        /\ G.nodes[IdOf(e)].xpath = G.nodes[IdOf(f)].xpath
        /\ G.nodes[IdOf(e)].xpath # <<>>

(***************************************************************************)
(* C23.  The ids of the Data_Link nodes of a page.                         *)
(***************************************************************************)
\* the numbers n of the ids "<page>_DATA_<n>" of the Data_Link nodes that hang off
\* the anchors of page k
DataNumbers(k) ==
    {n \in 0..NumNodes(G) :
        \E x \in Edges :
            /\ G.edges[x].data.relation = "CONTAINS_DATA"
            /\ G.edges[x].u \in {IdOf(e) : e \in {f \in Visited : f[1] = k}}
            /\ G.edges[x].v = Flat(file_contents[k].name \o
                                   <<"_", "DATA", "_", ToString(n)>>)}

\* C23: the ids of the Data_Link nodes of a page depend on the content of the page
\* only: two pages of a site with the same content have Data_Link ids with the same
\* numbers.
C23_PageScoped ==
    pc = "done" =>
        \A k, l \in 1..Len(file_contents) :
            DocOf(k) = DocOf(l) => DataNumbers(k) = DataNumbers(l)

\* the number of a Data_Link id is the number of nodes the graph had before it, the
\* nodes of the pages processed earlier among them
C23_GlobalCount ==
    /\ pc = "done"
    /\ \E k, l \in 1..Len(file_contents) :
          /\ k < l /\ DocOf(k) = DocOf(l)
          /\ DataNumbers(k) # {}
          /\ \A n \in DataNumbers(l) : \A m \in DataNumbers(k) : n > m

(***************************************************************************)
(* C24.  The types of the nodes at the ends of the edges.                  *)
(***************************************************************************)
TypeAt(n) == Get(G.nodes[n], "type", "")
EdgesOf(rel) == {x \in Edges : G.edges[x].data.relation = rel}

EdgeTyping ==
    /\ \A n \in DOMAIN G.nodes : TypeAt(n) # ""
    /\ Cardinality(NodesOfType("Page_File")) = Len(file_contents)
    /\ \A x \in EdgesOf("LINKS_TO_PAGE") :
          /\ TypeAt(G.edges[x].u) = "DOM_Element"
          /\ Get(G.nodes[G.edges[x].u], "tag", "") = "a"
          /\ TypeAt(G.edges[x].v) = "Page_File"
    /\ \A x \in EdgesOf("LINKS_TO_EXTERNAL_PAGE") : TypeAt(G.edges[x].v) = "External_Page"
    /\ \A x \in EdgesOf("CONTAINS_DATA") : TypeAt(G.edges[x].v) = "Data_Link"
    /\ \A x \in EdgesOf("CONTAINS") : G.edges[x].v \in ElementNodes

\* C24: when all pages are processed every node has a type, there are as many
\* Page_File nodes as pages, every LINKS_TO_PAGE edge runs from a DOM_Element anchor to
\* a Page_File node, every LINKS_TO_EXTERNAL_PAGE edge ends at an External_Page node,
\* every CONTAINS_DATA edge at a Data_Link node and every CONTAINS edge at an element
\* node.
C24_EdgeTyping == pc = "done" => EdgeTyping

\* the same for the sites in which every target that begins with "http" is a URL with
\* http:// or https://
C24_GenuineUrls ==
    (pc = "done" /\ \A e \in VisitedAnchors :
                       MatchHttp(TargetOf(e)) => HttpUrl(TargetOf(e))) => EdgeTyping

\* a finished build with a LINKS_TO_PAGE edge to a page that was processed after the
\* page of the anchor
C24_LinkedBefore ==
    /\ pc = "done"
    /\ \E x \in EdgesOf("LINKS_TO_PAGE") :
       \E k, l \in 1..Len(file_contents) :
          /\ k < l
          /\ G.nodes[G.edges[x].u].page = NameOf(k)
          /\ G.edges[x].v = NameOf(l)

(***************************************************************************)
(* C25.  External_Page nodes after their first sighting.                   *)
(***************************************************************************)
\* build_dom_tree is about to be called on an anchor whose target takes the branch of
\* the external pages and is an External_Page node of the graph already
LaterAnchor ==
    /\ pc = "walk"
    /\ pos # NoCall /\ pos # 0
    /\ DocOf(page_i)[pos].tag = "a"
    /\ DocOf(page_i)[pos].href # NoAttr
    /\ MatchHttp(TargetOf(<<page_i, pos>>))
    /\ LastSegment(TargetOf(<<page_i, pos>>)) \notin KnownPages
    /\ Flat(TargetOf(<<page_i, pos>>)) \in NodesOfType("External_Page")

\* the call leaves the attributes of the node and the edges there are as they are and
\* adds one LINKS_TO_EXTERNAL_PAGE edge to the node, with the text of this anchor
LaterAnchorFrame ==
    LET u == Flat(TargetOf(<<page_i, pos>>))
        added == {x \in (Len(G.edges) + 1)..Len(G'.edges) :
                     G'.edges[x].data.relation = "LINKS_TO_EXTERNAL_PAGE"}
    IN  /\ G'.nodes[u] = G.nodes[u]
        /\ SubSeq(G'.edges, 1, Len(G.edges)) = G.edges
        /\ Cardinality(added) = 1
        /\ \A x \in added :
              /\ G'.edges[x].v = u
              /\ G'.edges[x].data.anchor = extract_link_text(DocOf(page_i), pos)

\* the first anchor in processing order with target u
FirstAnchorTo(u) ==
    CHOOSE e \in AnchorsTo(u) :
        \A f \in AnchorsTo(u) : e[1] < f[1] \/ (e[1] = f[1] /\ e[2] <= f[2])

\* url, label and hostname of every External_Page node are those of the first anchor
\* to its URL
FirstSighting ==
    \A u \in NodesOfType("External_Page") :
        /\ AnchorsTo(u) # {}
        /\ G.nodes[u].url = u
        /\ G.nodes[u].label =
              extract_link_text(DocOf(FirstAnchorTo(u)[1]), FirstAnchorTo(u)[2])
        /\ G.nodes[u].hostname = Flat(Hostname(TargetOf(FirstAnchorTo(u))))

\* C25: url, label and hostname of an External_Page node are those computed from the
\* first anchor to its URL, and every later anchor to the URL adds one
\* LINKS_TO_EXTERNAL_PAGE edge with its own anchor text and leaves the attributes of
\* the node and the edges there are unchanged.
C25_Frozen == []FirstSighting /\ [][LaterAnchor => LaterAnchorFrame]_vars

\* the same for the anchors whose target is a URL with http:// or https://
C25_GenuineUrls ==
    [][(LaterAnchor /\ HttpUrl(TargetOf(<<page_i, pos>>))) => LaterAnchorFrame]_vars

\* a later anchor with another text has added its edge to an External_Page node
C25_SecondSighting ==
    \E u \in NodesOfType("External_Page") :
        /\ Cardinality(ExternalEdges(u)) = 2
        /\ \E x, y \in ExternalEdges(u) : G.edges[x].data.anchor # G.edges[y].data.anchor



====
